---- MODULE Spec2Model ----
(***************************************************************************)
(* pg_pathman, src/pl_funcs.c: the SQL-callable partition functions.       *)
(*                                                                         *)
(*   Spec / FairSpec : N backends running find_or_create_range_partition   *)
(*                     against one shared set of range partitions and the  *)
(*                     two LWLocks of pmstate.                             *)
(*   QuerySpec       : the read-only functions (check_overlap,             *)
(*                     get_range_by_idx, get_min_range_value,              *)
(*                     get_max_range_value, get_hash_part_idx) applied to  *)
(*                     every descriptor and argument within the bounds.    *)
(***************************************************************************)
EXTENDS Integers, Sequences, FiniteSets, TLC

\* ------------------------------------------------------------------ bounds
NumBackends == 2          \* concurrent callers of find_or_create_range_partition
MaxValue    == 3          \* partitioning-key values are -1 .. MaxValue
MaxBound    == 4          \* range bounds of the enumerated descriptors are 0 .. MaxBound
MaxRanges   == 3          \* ranges per enumerated descriptor
MaxIdx      == 4          \* get_range_by_idx indices are -3 .. MaxIdx
MaxHash     == 3          \* small hash values / partition counts are 0 .. MaxHash

\* ------------------------------------------------------- program constants
InvalidOid  == 0

Backends == 1 .. NumBackends
Values   == -1 .. MaxValue
NoBackend == 0

VARIABLES
    catalog,       \* shared partitioning metadata of the parent relation
    next_oid,      \* next Oid the DDL layer hands out
    config_lock,   \* holder of pmstate->load_config_lock (NoBackend = free)
    edit_lock,     \* holder of pmstate->edit_partitions_lock
    pc,            \* per backend: position in find_or_create_range_partition
    value,         \* per backend: argument #2
    prel,          \* per backend: the PartRelationInfo fetched at entry
    search_state,  \* per backend: local search_state
    ret,           \* per backend: what the call returned / raised
    create_calls,  \* number of create_partitions() calls so far
    qprel,         \* QuerySpec: descriptor the query runs against
    qcall,         \* QuerySpec: last query and its arguments
    qout           \* QuerySpec: its outcome

fvars == <<catalog, next_oid, config_lock, edit_lock, pc, value, prel,
           search_state, ret, create_calls>>
qvars == <<qprel, qcall, qout>>
vars  == <<catalog, next_oid, config_lock, edit_lock, pc, value, prel,
           search_state, ret, create_calls, qprel, qcall, qout>>

\* ------------------------------------------------------------ comparator
\* three-way btree comparison called through FunctionCall2
cmp(a, b) == IF a < b THEN -1 ELSE IF a = b THEN 0 ELSE 1

RangeEntry(oid, lo, hi) == [child_oid |-> oid, min |-> lo, max |-> hi]

PrelChildrenCount(p) == p.children_count
PrelGetRangesArray(p) == p.ranges

\* ----------------------------------------------------------- range search
RECURSIVE bsearch(_, _, _, _)
bsearch(ranges, v, lo, hi) ==
    IF lo > hi
        THEN [state |-> "GAP", child_oid |-> InvalidOid]
        ELSE LET mid == (lo + hi) \div 2
                 re  == ranges[mid]
             IN  IF cmp(v, re.min) < 0
                     THEN bsearch(ranges, v, lo, mid - 1)
                 ELSE IF cmp(v, re.max) >= 0
                     THEN bsearch(ranges, v, mid + 1, hi)
                 ELSE [state |-> "FOUND", child_oid |-> re.child_oid]

search_range_partition_eq(v, p) ==
    LET ranges == PrelGetRangesArray(p)
        n      == Len(ranges)
    IN  IF n = 0
            THEN [state |-> "OUT_OF_RANGE", child_oid |-> InvalidOid]
        ELSE IF cmp(v, ranges[1].min) < 0 \/ cmp(v, ranges[n].max) >= 0
            THEN [state |-> "OUT_OF_RANGE", child_oid |-> InvalidOid]
        ELSE bsearch(ranges, v, 1, n)

\* ------------------------------------------------- catalog and DDL delegate
NotPartitioned == [valid |-> FALSE, parttype |-> "NONE", children_count |-> 0,
                   ranges |-> <<>>]

InitialRanges == << RangeEntry(1, 0, 1), RangeEntry(2, 2, 3) >>

Partitioned(ranges) == [valid |-> TRUE, parttype |-> "RANGE",
                        children_count |-> Len(ranges), ranges |-> ranges]

\* the snapshot a backend gets for the parent relation
get_pathman_relation_info(c) == c

\* ranges with a new entry put at its sorted position
RECURSIVE InsertSorted(_, _)
InsertSorted(ranges, re) ==
    IF ranges = <<>> THEN << re >>
    ELSE IF re.min < Head(ranges).min THEN << re >> \o ranges
    ELSE << Head(ranges) >> \o InsertSorted(Tail(ranges), re)

RetOid(oid) == [kind |-> "oid",   oid |-> oid]
RetNull     == [kind |-> "null",  oid |-> InvalidOid]
RetError    == [kind |-> "error", oid |-> InvalidOid]
NoRet       == [kind |-> "none",  oid |-> InvalidOid]

\* create_partitions(parent, value, value_type): the possible outcomes, each
\* a record [ok, oid, catalog, next_oid].  A value no range owns gets a new
\* registered partition [value, value + 1) or the DDL fails; a value that a
\* range already owns gets that range's Oid or the DDL fails.
create_partitions(c, v, oid) ==
    LET owner == search_range_partition_eq(v, c)
        fail  == [ok |-> FALSE, oid |-> InvalidOid, catalog |-> c, next_oid |-> oid]
    IN  IF owner.state = "FOUND"
            THEN { fail,
                   [ok |-> TRUE, oid |-> owner.child_oid, catalog |-> c,
                    next_oid |-> oid] }
            ELSE { fail,
                   [ok |-> TRUE, oid |-> oid,
                    catalog |-> Partitioned(InsertSorted(c.ranges,
                                               RangeEntry(oid, v, v + 1))),
                    next_oid |-> oid + 1] }

\* ---------------------------------------------- find_or_create_range_partition
\* the branch after the first probe, treating GAP like OUT_OF_RANGE
first_branch_gap_creates(p, sr) ==
    IF ~p.valid
        THEN [pc |-> "done", ret |-> RetNull]
    ELSE IF sr.state = "FOUND"
        THEN [pc |-> "done", ret |-> RetOid(sr.child_oid)]
    ELSE [pc |-> "lock_config", ret |-> NoRet]

\* the branch after the first probe: where the call goes and what it returns
first_branch(p, sr) ==
    IF ~p.valid
        THEN [pc |-> "done", ret |-> RetNull]
    ELSE IF sr.state = "FOUND"
        THEN [pc |-> "done", ret |-> RetOid(sr.child_oid)]
    ELSE IF sr.state = "GAP"
        THEN [pc |-> "done", ret |-> RetNull]
    ELSE [pc |-> "lock_config", ret |-> NoRet]

\* entry up to the first branch: fetch prel, first probe, FOUND / GAP returns
Call(b, v) ==
    /\ pc[b] = "idle"
    /\ LET p  == get_pathman_relation_info(catalog)
           sr == search_range_partition_eq(v, p)
           br == first_branch(p, sr)
       IN  /\ value' = [value EXCEPT ![b] = v]
           /\ prel' = [prel EXCEPT ![b] = p]
           /\ search_state' = [search_state EXCEPT
                                 ![b] = IF p.valid THEN sr.state ELSE "NONE"]
           /\ pc' = [pc EXCEPT ![b] = br.pc]
           /\ ret' = [ret EXCEPT ![b] = br.ret]
    /\ UNCHANGED <<catalog, next_oid, config_lock, edit_lock, create_calls>>
    /\ UNCHANGED qvars

\* the first acquisition taking edit_partitions_lock instead (swapped order)
AcquireConfigLock_edit_first(b) ==
    /\ pc[b] = "lock_config"
    /\ edit_lock = NoBackend
    /\ edit_lock' = b
    /\ pc' = [pc EXCEPT ![b] = "lock_edit"]
    /\ UNCHANGED <<catalog, next_oid, config_lock, value, prel, search_state,
                   ret, create_calls>>
    /\ UNCHANGED qvars

\* LWLockAcquire(pmstate->load_config_lock, LW_EXCLUSIVE)
AcquireConfigLock(b) ==
    /\ pc[b] = "lock_config"
    /\ config_lock = NoBackend
    /\ config_lock' = b
    /\ pc' = [pc EXCEPT ![b] = "lock_edit"]
    /\ UNCHANGED <<catalog, next_oid, edit_lock, value, prel, search_state,
                   ret, create_calls>>
    /\ UNCHANGED qvars

\* LWLockAcquire(pmstate->edit_partitions_lock, LW_EXCLUSIVE)
AcquireEditLock(b) ==
    /\ pc[b] = "lock_edit"
    /\ edit_lock = NoBackend
    /\ edit_lock' = b
    /\ pc' = [pc EXCEPT ![b] = "recheck"]
    /\ UNCHANGED <<catalog, next_oid, config_lock, value, prel, search_state,
                   ret, create_calls>>
    /\ UNCHANGED qvars

\* second probe, against the prel fetched at entry
Recheck(b) ==
    /\ pc[b] = "recheck"
    /\ LET sr == search_range_partition_eq(value[b], prel[b])
       IN  /\ search_state' = [search_state EXCEPT ![b] = sr.state]
           /\ IF sr.state = "FOUND"
                  THEN /\ ret' = [ret EXCEPT ![b] = RetOid(sr.child_oid)]
                       /\ pc' = [pc EXCEPT ![b] = "unlock_config"]
                  ELSE /\ pc' = [pc EXCEPT ![b] = "create"]
                       /\ UNCHANGED ret
    /\ UNCHANGED <<catalog, next_oid, config_lock, edit_lock, value, prel,
                   create_calls>>
    /\ UNCHANGED qvars

\* child_oid = create_partitions(parent_oid, value, value_type); an ERROR
\* raised inside leaves the function at once, past both LWLockRelease calls
CreatePartition(b) ==
    /\ pc[b] = "create"
    /\ \E o \in create_partitions(catalog, value[b], next_oid) :
          /\ catalog' = o.catalog
          /\ next_oid' = o.next_oid
          /\ IF o.ok
                 THEN /\ ret' = [ret EXCEPT ![b] = RetOid(o.oid)]
                      /\ pc' = [pc EXCEPT ![b] = "unlock_config"]
                 ELSE /\ ret' = [ret EXCEPT ![b] = RetError]
                      /\ pc' = [pc EXCEPT ![b] = "raised"]
    /\ create_calls' = create_calls + 1
    /\ UNCHANGED <<config_lock, edit_lock, value, prel, search_state>>
    /\ UNCHANGED qvars

\* LWLockRelease(pmstate->load_config_lock)
ReleaseConfigLock(b) ==
    /\ pc[b] = "unlock_config"
    /\ config_lock' = NoBackend
    /\ pc' = [pc EXCEPT ![b] = "unlock_edit"]
    /\ UNCHANGED <<catalog, next_oid, edit_lock, value, prel, search_state,
                   ret, create_calls>>
    /\ UNCHANGED qvars

\* the return without the second LWLockRelease
ReleaseEditLock_forgotten(b) ==
    /\ pc[b] = "unlock_edit"
    /\ pc' = [pc EXCEPT ![b] = "done"]
    /\ UNCHANGED <<catalog, next_oid, config_lock, edit_lock, value, prel,
                   search_state, ret, create_calls>>
    /\ UNCHANGED qvars

\* LWLockRelease(pmstate->edit_partitions_lock); PG_RETURN_OID
ReleaseEditLock(b) ==
    /\ pc[b] = "unlock_edit"
    /\ edit_lock' = NoBackend
    /\ pc' = [pc EXCEPT ![b] = "done"]
    /\ UNCHANGED <<catalog, next_oid, config_lock, value, prel, search_state,
                   ret, create_calls>>
    /\ UNCHANGED qvars

\* the backend's error recovery after the ERROR left the function: every
\* LWLock the backend still holds is released
AbortTransaction(b) ==
    /\ pc[b] = "raised"
    /\ config_lock' = IF config_lock = b THEN NoBackend ELSE config_lock
    /\ edit_lock' = IF edit_lock = b THEN NoBackend ELSE edit_lock
    /\ pc' = [pc EXCEPT ![b] = "aborted"]
    /\ UNCHANGED <<catalog, next_oid, value, prel, search_state, ret,
                   create_calls>>
    /\ UNCHANGED qvars

\* ===================================================== read-only functions
\* outcome of a call: a status and the returned Datum(s)
Ok(val)     == [status |-> "ok", val |-> val]
Error(name) == [status |-> name, val |-> <<>>]

BoolGetDatum(x) == IF x THEN 1 ELSE 0

\* values a read outside the ranges array can deliver
Garbage == {0, 1}

\* what reading n Datums through an invalid ranges pointer or index can do
UndefinedRead(n) ==
    {Error("crash")} \cup { Ok(s) : s \in [1 .. n -> Garbage] }

abs(x) == IF x < 0 THEN 0 - x ELSE x

\* ------------------------------------------------------------ check_overlap
\* the test with both comparisons inclusive
overlap_test_inclusive(c1, c2) == c1 <= 0 /\ c2 >= 0

\* if (c1 < 0 && c2 > 0)
overlap_test(c1, c2) == c1 < 0 /\ c2 > 0

\* for (i = 0; i < PrelChildrenCount(prel); i++), i counted from 1 here
RECURSIVE overlap_loop(_, _, _, _, _)
overlap_loop(ranges, i, n, p1, p2) ==
    IF i > n
        THEN FALSE
        ELSE LET c1 == cmp(p1, ranges[i].max)
                 c2 == cmp(p2, ranges[i].min)
             IN  IF overlap_test(c1, c2)
                     THEN TRUE
                     ELSE overlap_loop(ranges, i + 1, n, p1, p2)

\* the set of outcomes of check_overlap(parent, p1, p2)
check_overlap(p, p1, p2) ==
    IF ~p.valid
        THEN { Error("NotPartitioned") }
    ELSE IF p.parttype # "RANGE" /\ PrelChildrenCount(p) > 0
        \* the parttype test guards nothing: the loop reads ranges[i]
        THEN UndefinedRead(1)
    ELSE { Ok(<< BoolGetDatum(overlap_loop(PrelGetRangesArray(p), 1,
                                            PrelChildrenCount(p), p1, p2)) >>) }

\* --------------------------------------------------------- get_range_by_idx
get_range_by_idx(p, idx) ==
    IF ~p.valid
        THEN { Error("NotPartitioned") }
    ELSE IF abs(idx) >= PrelChildrenCount(p)
        THEN { Error("PartitionNotFound") }
    ELSE IF idx < -1
        THEN { Error("InvalidIndex") }
    ELSE LET i == IF idx = -1 THEN PrelChildrenCount(p) - 1 ELSE idx
             ranges == PrelGetRangesArray(p)
         IN  IF p.parttype = "RANGE"
                 THEN { Ok(<< ranges[i + 1].min, ranges[i + 1].max >>) }
                 ELSE UndefinedRead(2)

\* ------------------------------------- get_min_range_value / get_max_range_value
get_min_range_value(p) ==
    IF ~p.valid
        THEN { Error("NotPartitioned") }
    ELSE IF p.parttype = "RANGE" /\ PrelChildrenCount(p) > 0
        THEN { Ok(<< PrelGetRangesArray(p)[1].min >>) }
    ELSE UndefinedRead(1)

get_max_range_value(p) ==
    IF ~p.valid
        THEN { Error("NotPartitioned") }
    ELSE IF p.parttype = "RANGE" /\ PrelChildrenCount(p) > 0
        THEN { Ok(<< PrelGetRangesArray(p)[PrelChildrenCount(p)].max >>) }
    ELSE UndefinedRead(1)

\* -------------------------------------------------------- get_hash_part_idx
hash_to_part_index(h, n) ==
    IF n = 0 THEN Error("InvalidPartitionCount") ELSE Ok(<< h % n >>)

\* the wrapper passing its two arguments in the wrong order
get_hash_part_idx_swapped(h, n) == hash_to_part_index(n, h)

get_hash_part_idx(h, n) == hash_to_part_index(h, n)

\* --------------------------------------------- descriptors and query inputs
Intervals == { iv \in (0 .. MaxBound) \X (0 .. MaxBound) : iv[1] < iv[2] }

SortedBounds(n) ==
    { s \in [1 .. n -> Intervals] :
        \A i \in 1 .. n - 1 : s[i][2] <= s[i + 1][1] }

RangeDescriptors ==
    { Partitioned([i \in 1 .. Len(s) |-> RangeEntry(i, s[i][1], s[i][2])]) :
        s \in UNION { SortedBounds(n) : n \in 0 .. MaxRanges } }

HashDescriptors ==
    { [valid |-> TRUE, parttype |-> "HASH", children_count |-> n,
       ranges |-> <<>>] : n \in 1 .. MaxRanges }

Descriptors == RangeDescriptors \cup HashDescriptors \cup { NotPartitioned }

Probes     == -1 .. MaxBound + 1
Indices    == -3 .. MaxIdx
HashValues == (0 .. MaxHash) \cup { 2147483647 }

QIdle == [op |-> "none", a1 |-> 0, a2 |-> 0]
QNone == [status |-> "none", val |-> <<>>]

QCall(op, a1, a2) == [op |-> op, a1 |-> a1, a2 |-> a2]

CheckOverlap(p1, p2) ==
    /\ qcall' = QCall("check_overlap", p1, p2)
    /\ qout' \in check_overlap(qprel, p1, p2)
    /\ UNCHANGED qprel
    /\ UNCHANGED fvars

GetRangeByIdx(idx) ==
    /\ qcall' = QCall("get_range_by_idx", idx, 0)
    /\ qout' \in get_range_by_idx(qprel, idx)
    /\ UNCHANGED qprel
    /\ UNCHANGED fvars

GetMinRangeValue ==
    /\ qcall' = QCall("get_min_range_value", 0, 0)
    /\ qout' \in get_min_range_value(qprel)
    /\ UNCHANGED qprel
    /\ UNCHANGED fvars

GetMaxRangeValue ==
    /\ qcall' = QCall("get_max_range_value", 0, 0)
    /\ qout' \in get_max_range_value(qprel)
    /\ UNCHANGED qprel
    /\ UNCHANGED fvars

GetHashPartIdx(h, n) ==
    /\ qcall' = QCall("get_hash_part_idx", h, n)
    /\ qout' = get_hash_part_idx(h, n)
    /\ UNCHANGED qprel
    /\ UNCHANGED fvars

QInit ==
    /\ catalog = NotPartitioned
    /\ next_oid = 3
    /\ config_lock = NoBackend
    /\ edit_lock = NoBackend
    /\ pc = [b \in Backends |-> "idle"]
    /\ value = [b \in Backends |-> 0]
    /\ prel = [b \in Backends |-> NotPartitioned]
    /\ search_state = [b \in Backends |-> "NONE"]
    /\ ret = [b \in Backends |-> NoRet]
    /\ create_calls = 0
    /\ qprel \in Descriptors
    /\ qcall = QIdle
    /\ qout = QNone

QNext ==
    \/ \E p1 \in Probes, p2 \in Probes : CheckOverlap(p1, p2)
    \/ \E idx \in Indices : GetRangeByIdx(idx)
    \/ GetMinRangeValue
    \/ GetMaxRangeValue
    \/ \E h \in HashValues, n \in HashValues : GetHashPartIdx(h, n)

QuerySpec == QInit /\ [][QNext]_vars

Init ==
    /\ catalog \in { NotPartitioned, Partitioned(InitialRanges) }
    /\ next_oid = 3
    /\ config_lock = NoBackend
    /\ edit_lock = NoBackend
    /\ pc = [b \in Backends |-> "idle"]
    /\ value = [b \in Backends |-> 0]
    /\ prel = [b \in Backends |-> NotPartitioned]
    /\ search_state = [b \in Backends |-> "NONE"]
    /\ ret = [b \in Backends |-> NoRet]
    /\ create_calls = 0
    /\ qprel = NotPartitioned
    /\ qcall = QIdle
    /\ qout = QNone

Step(b) ==
    \/ \E v \in Values : Call(b, v)
    \/ AcquireConfigLock(b)
    \/ AcquireEditLock(b)
    \/ Recheck(b)
    \/ CreatePartition(b)
    \/ ReleaseConfigLock(b)
    \/ ReleaseEditLock(b)
    \/ AbortTransaction(b)

Next == \E b \in Backends : Step(b)

Spec == Init /\ [][Next]_vars

\* LWLock waiters are queued and every backend keeps running
FairSpec == Spec /\ \A b \in Backends : WF_vars(Step(b))

Finished == { "done", "raised", "aborted" }

\* ================================================================== claims

\* C1: callers racing find_or_create on the same value that no range owned
\* when they started all return the same child Oid, and create_partitions
\* was called exactly once in total.
C1_SameChildCreatedOnce ==
    ( \A b \in Backends :
         /\ pc[b] = "done"
         /\ ret[b].kind = "oid"
         /\ value[b] = value[1]
         /\ search_range_partition_eq(value[b], prel[b]).state = "OUT_OF_RANGE" )
    => /\ \A b \in Backends : ret[b] = ret[1]
       /\ create_calls = 1

\* C2: a call that has finished, by a return or by an ERROR raised in
\* create_partitions, holds neither load_config_lock nor edit_partitions_lock.
C2_NoLockHeldWhenFinished ==
    \A b \in Backends :
        pc[b] \in Finished => config_lock # b /\ edit_lock # b

Progress(b) ==
    \/ AcquireConfigLock(b)
    \/ AcquireEditLock(b)
    \/ Recheck(b)
    \/ CreatePartition(b)
    \/ ReleaseConfigLock(b)
    \/ ReleaseEditLock(b)
    \/ AbortTransaction(b)

\* C10: no state is reachable where some call is unfinished and no backend
\* can step, and under fair scheduling every started call finishes with a
\* result or a failure, also behind a caller whose create_partitions failed.
C10_NoDeadlockAndTermination ==
    /\ [] ( (\E b \in Backends : pc[b] \notin Finished \cup {"idle"})
              => \E b \in Backends : ENABLED Progress(b) )
    /\ \A b \in Backends : (pc[b] # "idle") ~> (pc[b] \in Finished)

C10_Witness ==
    \E b1, b2 \in Backends :
        /\ pc[b1] = "aborted"
        /\ ret[b1] = RetError
        /\ config_lock = b2
        /\ pc[b2] = "lock_edit"
        /\ create_calls = 1

\* C4: on a RANGE descriptor check_overlap returns true iff some entry
\* [min, max) has p1 < max and p2 > min; a probe that exactly fills the gap
\* between two neighbours gives false.
C4_OverlapIff ==
    (qcall.op = "check_overlap" /\ qprel.valid /\ qprel.parttype = "RANGE")
    => /\ qout.status = "ok"
       /\ qout.val \in { <<0>>, <<1>> }
       /\ qout.val = <<1>> <=>
            \E i \in 1 .. Len(qprel.ranges) :
                qcall.a1 < qprel.ranges[i].max /\ qcall.a2 > qprel.ranges[i].min

C4_Witness ==
    /\ qcall.op = "check_overlap"
    /\ qprel.valid /\ qprel.parttype = "RANGE"
    /\ \E i \in 1 .. Len(qprel.ranges) - 1 :
          /\ qprel.ranges[i].max < qprel.ranges[i + 1].min
          /\ qcall.a1 = qprel.ranges[i].max
          /\ qcall.a2 = qprel.ranges[i + 1].min
    /\ qout = Ok(<<0>>)

\* C5: on a RANGE descriptor with at least one child, index -1 succeeds and
\* gives the bounds that index children_count - 1 gives.
C5_MinusOneIsLast ==
    ( /\ qcall.op = "get_range_by_idx"
      /\ qcall.a1 = -1
      /\ qprel.valid /\ qprel.parttype = "RANGE"
      /\ PrelChildrenCount(qprel) >= 1 )
    => /\ qout.status = "ok"
       /\ qout \in get_range_by_idx(qprel, PrelChildrenCount(qprel) - 1)

\* C6: every negative index other than -1 fails with InvalidIndex whatever
\* the child count, and every index >= child count with PartitionNotFound.
C6_IndexFailures ==
    (qcall.op = "get_range_by_idx" /\ qprel.valid)
    => /\ qcall.a1 < -1 => qout.status = "InvalidIndex"
       /\ qcall.a1 >= PrelChildrenCount(qprel) => qout.status = "PartitionNotFound"

\* C7: get_min_range_value / get_max_range_value give ranges[0].min /
\* ranges[last].max on a non-empty RANGE descriptor, fail with
\* NotRangePartitioned on HASH and with EmptyPartitionSet on an empty RANGE.
C7_MinMaxFailures ==
    (qcall.op \in {"get_min_range_value", "get_max_range_value"} /\ qprel.valid)
    => IF qprel.parttype # "RANGE"
           THEN qout = Error("NotRangePartitioned")
       ELSE IF Len(qprel.ranges) = 0
           THEN qout = Error("EmptyPartitionSet")
       ELSE qout = Ok(<< IF qcall.op = "get_min_range_value"
                             THEN qprel.ranges[1].min
                             ELSE qprel.ranges[Len(qprel.ranges)].max >>)

====
